---- MODULE Spec2Model ----
(***************************************************************************)
(* A model of src/DCF.py, the Streamlit intrinsic-value calculator.        *)
(*                                                                         *)
(* One run of the script is one request: the ticker is read, the data is   *)
(* fetched (get_financial_data, with the ".NS" retry), the assumptions     *)
(* form is drawn, and on a button press the two-stage DCF is run and the   *)
(* verdict rendered.  The three pure functions of the file                 *)
(* (get_financial_data's normalisation, calculate_historical_growth and    *)
(* run_dcf_model) are also checked on their own over wider inputs under    *)
(* SpecNorm, SpecGrowth and SpecDcf.                                       *)
(*                                                                         *)
(* Numbers.  The program computes in IEEE doubles (numpy float64 cells     *)
(* from the statement frames, Python floats from the widgets).  The model  *)
(* keeps them as exact rationals extended with inf, -inf and nan, with the *)
(* IEEE rules for those three; rounding is not modelled.  Division of a    *)
(* numpy float64 by zero yields inf/-inf/nan (a warning, no exception);    *)
(* a Python float power that exceeds the double range raises               *)
(* OverflowError.  TLC's integers are 32 bits wide, so the integers under  *)
(* the rationals are kept as digit sequences.                              *)
(***************************************************************************)
EXTENDS Integers, Sequences, FiniteSets, TLC

VARIABLES
    pc,                 \* position in the script run (or in the function call)
    ticker_input,       \* line 128: the text input, upper-cased
    fetches,            \* the get_financial_data calls of this run, in order
    raw,                \* SpecNorm: the provider's answer handed to the call
    data,               \* line 132/136: what get_financial_data returned last
    historical_growth,  \* line 141
    user_growth_rate,   \* line 150
    user_discount_rate, \* line 165
    period_in_years,    \* line 173
    intrinsic_value,    \* line 191
    rendered            \* the elements drawn so far in this run, in order

vars == <<pc, ticker_input, fetches, raw, data, historical_growth,
          user_growth_rate, user_discount_rate, period_in_years,
          intrinsic_value, rendered>>

(***************************************************************************)
(* Natural numbers as little-endian digit sequences, <<>> being zero.      *)
(***************************************************************************)
Base == 100 * 100

Dig(a, i) == IF i <= Len(a) THEN a[i] ELSE 0

RECURSIVE NFromInt(_)
NFromInt(n) == IF n = 0 THEN <<>> ELSE <<n % Base>> \o NFromInt(n \div Base)

RECURSIVE NAddC(_, _, _, _)
NAddC(a, b, i, c) ==
    IF i > Len(a) /\ i > Len(b)
    THEN IF c = 0 THEN <<>> ELSE <<c>>
    ELSE LET s == Dig(a, i) + Dig(b, i) + c
         IN  <<s % Base>> \o NAddC(a, b, i + 1, s \div Base)

NAdd(a, b) == NAddC(a, b, 1, 0)

RECURSIVE NTrim(_)
NTrim(a) ==
    IF Len(a) > 0 /\ a[Len(a)] = 0 THEN NTrim(SubSeq(a, 1, Len(a) - 1)) ELSE a

RECURSIVE NSubC(_, _, _, _)
NSubC(a, b, i, c) ==
    IF i > Len(a) THEN <<>>
    ELSE LET s == Dig(a, i) - Dig(b, i) - c
         IN  IF s < 0 THEN <<s + Base>> \o NSubC(a, b, i + 1, 1)
                      ELSE <<s>> \o NSubC(a, b, i + 1, 0)

\* a - b for a >= b
NSub(a, b) == NTrim(NSubC(a, b, 1, 0))

RECURSIVE NCmpFrom(_, _, _)
NCmpFrom(a, b, i) ==
    IF i = 0 THEN 0
    ELSE IF a[i] > b[i] THEN 1
    ELSE IF a[i] < b[i] THEN -1
    ELSE NCmpFrom(a, b, i - 1)

NCmp(a, b) ==
    IF Len(a) > Len(b) THEN 1
    ELSE IF Len(a) < Len(b) THEN -1
    ELSE NCmpFrom(a, b, Len(a))

RECURSIVE NMulDigC(_, _, _, _)
NMulDigC(a, d, i, c) ==
    IF i > Len(a)
    THEN IF c = 0 THEN <<>> ELSE <<c>>
    ELSE LET s == a[i] * d + c
         IN  <<s % Base>> \o NMulDigC(a, d, i + 1, s \div Base)

RECURSIVE NMulFrom(_, _, _)
NMulFrom(a, b, j) ==
    IF j > Len(b) THEN <<>>
    ELSE NAdd(NMulDigC(a, b[j], 1, 0), <<0>> \o NMulFrom(a, b, j + 1))

NMul(a, b) == IF a = <<>> \/ b = <<>> THEN <<>> ELSE NTrim(NMulFrom(a, b, 1))

(***************************************************************************)
(* Integers: a sign and a magnitude.                                       *)
(***************************************************************************)
Sgn(i) == IF i > 0 THEN 1 ELSE IF i < 0 THEN -1 ELSE 0

Abs(i) == IF i < 0 THEN -i ELSE i

Z0 == [s |-> 0, m |-> <<>>]

ZInt(i) == [s |-> Sgn(i), m |-> NFromInt(Abs(i))]

ZNeg(a) == [s |-> -a.s, m |-> a.m]

ZAdd(a, b) ==
    IF a.s = 0 THEN b
    ELSE IF b.s = 0 THEN a
    ELSE IF a.s = b.s THEN [s |-> a.s, m |-> NAdd(a.m, b.m)]
    ELSE LET c == NCmp(a.m, b.m)
         IN  IF c = 0 THEN Z0
             ELSE IF c > 0 THEN [s |-> a.s, m |-> NSub(a.m, b.m)]
             ELSE [s |-> b.s, m |-> NSub(b.m, a.m)]

ZSub(a, b) == ZAdd(a, ZNeg(b))

ZMul(a, b) ==
    IF a.s = 0 \/ b.s = 0 THEN Z0 ELSE [s |-> a.s * b.s, m |-> NMul(a.m, b.m)]

RECURSIVE ZPow(_, _)
ZPow(a, k) == IF k = 0 THEN ZInt(1) ELSE ZMul(a, ZPow(a, k - 1))

(***************************************************************************)
(* Doubles: exact rationals n/d (d > 0) extended with inf, -inf and nan.   *)
(***************************************************************************)
XNaN == [k |-> "nan", n |-> Z0, d |-> Z0]

XInf == [k |-> "inf", n |-> Z0, d |-> Z0]

XNInf == [k |-> "ninf", n |-> Z0, d |-> Z0]

\* n/d for d # 0, the sign carried by the numerator
Fin(n, d) ==
    IF d.s < 0 THEN [k |-> "fin", n |-> ZNeg(n), d |-> ZNeg(d)]
    ELSE [k |-> "fin", n |-> n, d |-> d]

XInt(i) == Fin(ZInt(i), ZInt(1))

XFrac(i, j) == Fin(ZInt(i), ZInt(j))

XSign(a) ==
    CASE a.k = "fin" -> a.n.s
      [] a.k = "inf" -> 1
      [] a.k = "ninf" -> -1
      [] OTHER -> 0

XOfSign(s) == IF s > 0 THEN XInf ELSE IF s < 0 THEN XNInf ELSE XNaN

XNeg(a) ==
    CASE a.k = "fin" -> [k |-> "fin", n |-> ZNeg(a.n), d |-> a.d]
      [] a.k = "inf" -> XNInf
      [] a.k = "ninf" -> XInf
      [] OTHER -> XNaN

XAdd(a, b) ==
    IF a.k = "nan" \/ b.k = "nan" THEN XNaN
    ELSE IF a.k = "fin" /\ b.k = "fin"
    THEN IF a.d = b.d THEN Fin(ZAdd(a.n, b.n), a.d)
         ELSE IF a.n.s = 0 THEN b
         ELSE IF b.n.s = 0 THEN a
         ELSE Fin(ZAdd(ZMul(a.n, b.d), ZMul(b.n, a.d)), ZMul(a.d, b.d))
    ELSE IF a.k = "fin" THEN b
    ELSE IF b.k = "fin" THEN a
    ELSE IF a.k = b.k THEN a
    ELSE XNaN

XSub(a, b) == XAdd(a, XNeg(b))

XMul(a, b) ==
    IF a.k = "nan" \/ b.k = "nan" THEN XNaN
    ELSE IF a.k = "fin" /\ b.k = "fin"
    THEN Fin(ZMul(a.n, b.n), ZMul(a.d, b.d))
    ELSE XOfSign(XSign(a) * XSign(b))

\* numpy's float64 division: x/0 is inf, -inf or nan, never an exception
XDiv(a, b) ==
    IF a.k = "nan" \/ b.k = "nan" THEN XNaN
    ELSE IF b.k = "fin"
    THEN IF b.n.s = 0 THEN XOfSign(XSign(a))
         ELSE IF a.k = "fin" THEN Fin(ZMul(a.n, b.d), ZMul(a.d, b.n))
         ELSE XOfSign(XSign(a) * XSign(b))
    ELSE IF a.k = "fin" THEN XInt(0)
    ELSE XNaN

\* a < b; every comparison with nan is false
XLess(a, b) ==
    IF a.k = "nan" \/ b.k = "nan" THEN FALSE
    ELSE IF a.k = "fin" /\ b.k = "fin"
    THEN IF a.d = b.d THEN ZSub(a.n, b.n).s < 0
         ELSE ZSub(ZMul(a.n, b.d), ZMul(b.n, a.d)).s < 0
    ELSE IF a.k = b.k THEN FALSE
    ELSE a.k = "ninf" \/ b.k = "inf"

XEq(a, b) ==
    IF a.k = "nan" \/ b.k = "nan" THEN FALSE
    ELSE IF a.k = "fin" /\ b.k = "fin"
    THEN ZSub(ZMul(a.n, b.d), ZMul(b.n, a.d)).s = 0
    ELSE a.k = b.k

(***************************************************************************)
(* Cells of the provider's frames: a number, NaN, or not there at all      *)
(* (a statement row that is missing, info.get returning None, an empty     *)
(* price history).                                                         *)
(***************************************************************************)
Num(v) == [k |-> "num", v |-> v]

NaN == [k |-> "nan", v |-> 0]

Absent == [k |-> "absent", v |-> 0]

\* pd.notna
notna(c) == c.k = "num"

\* float addition and subtraction of two cells that are present
CellAdd(a, b) == IF a.k = "num" /\ b.k = "num" THEN Num(a.v + b.v) ELSE NaN

CellSub(a, b) == IF a.k = "num" /\ b.k = "num" THEN Num(a.v - b.v) ELSE NaN

\* c > 0, false for NaN
CellPositive(c) == c.k = "num" /\ c.v > 0

CellX(c) == IF c.k = "num" THEN XInt(c.v) ELSE XNaN

(***************************************************************************)
(* Bounds of the inputs.                                                   *)
(***************************************************************************)
MaxNetIncome == 1

MaxShares == 2

MaxPrice == 2

MaxFcf == 3

MaxFcfLen == 3

MaxCashFlow == 2

(***************************************************************************)
(* The provider (yfinance): what one lookup of a ticker can answer.        *)
(* Total Debt and Cash cells that are present but NaN are left out.        *)
(***************************************************************************)
Statements == {"ok", "empty", "unreachable"}

NetIncomes == {Absent, NaN} \cup {Num(v) : v \in (-1)..MaxNetIncome}

Depreciations == {Absent, NaN, Num(1)}

ShareCounts == {Absent} \cup {Num(v) : v \in 0..MaxShares}

Debts == {Absent, Num(1)}

Cashes == {Absent, Num(3)}

Prices == {Absent, NaN} \cup {Num(v) : v \in 0..MaxPrice}

NoRow == [present |-> FALSE, values |-> <<>>]

FcfRows == {NoRow, [present |-> TRUE, values |-> <<3, 1>>],
            [present |-> TRUE, values |-> <<1, 2, 3, 4, 5>>]}

NoResponse ==
    [statements |-> "none", net_income |-> Absent, depreciation |-> Absent,
     free_cash_flow |-> NoRow, shares |-> Absent, total_debt |-> Absent,
     cash |-> Absent, price |-> Absent]

Responses ==
    {[NoResponse EXCEPT !.statements = "empty"],
     [NoResponse EXCEPT !.statements = "unreachable"]}
    \cup
    [statements : {"ok"}, net_income : NetIncomes, depreciation : Depreciations,
     free_cash_flow : FcfRows, shares : ShareCounts, total_debt : Debts,
     cash : Cashes, price : Prices]

(***************************************************************************)
(* get_financial_data, lines 22-80.                                        *)
(***************************************************************************)
ErrStatements == "Could not fetch complete financial statements."

ErrMissing == "Missing critical financial data from the API."

ErrFetch == "An error occurred fetching data for the ticker."

OwnerEarningsLabel == "Owner Earnings"

NetProfitLabel == "Net Profit (as Owner Earnings were negative)"

NoData ==
    [error |-> "unset", fcf_data |-> <<>>, starting_cash_flow |-> Absent,
     metric_used |-> "", shares_outstanding |-> Absent, total_debt |-> Absent,
     cash_and_equivalents |-> Absent, current_price |-> Absent]

ErrorData(msg) == [NoData EXCEPT !.error = msg]

\* "error" in data
IsError(d) == d.error # ""

\* line 43: net_income + depreciation - maintenance_capex, in that order
owner_earnings(net_income, depreciation) ==
    LET maintenance_capex == depreciation
    IN  CellSub(CellAdd(net_income, depreciation), maintenance_capex)

\* UsesOwnerEarnings with the comparison slipped to >=
UsesOwnerEarningsNonNegative(oe) == oe.k = "num" /\ oe.v >= 0

\* line 46
UsesOwnerEarnings(oe) == CellPositive(oe)

\* .iloc[:4]
First4(s) == SubSeq(s, 1, IF Len(s) < 4 THEN Len(s) ELSE 4)

\* lines 60-61: the balance-sheet line, or 0 when the row is not in the index
LineOrZero(c) == IF c.k = "absent" THEN Num(0) ELSE c

\* line 65
CriticalPresent(starting_cash_flow, shares_outstanding, current_price) ==
    notna(starting_cash_flow) /\ notna(shares_outstanding) /\ notna(current_price)

get_financial_data(ticker_symbol, r) ==
    IF r.statements = "unreachable" THEN ErrorData(ErrFetch)
    ELSE IF r.statements = "empty" THEN ErrorData(ErrStatements)
    \* a missing row is a KeyError, an empty price history an IndexError
    ELSE IF r.net_income.k = "absent" \/ r.depreciation.k = "absent"
            \/ ~r.free_cash_flow.present \/ r.price.k = "absent"
    THEN ErrorData(ErrFetch)
    ELSE LET oe == owner_earnings(r.net_income, r.depreciation)
             starting_cash_flow == IF UsesOwnerEarnings(oe) THEN oe ELSE r.net_income
             metric_used == IF UsesOwnerEarnings(oe) THEN OwnerEarningsLabel
                                                     ELSE NetProfitLabel
         IN  IF ~CriticalPresent(starting_cash_flow, r.shares, r.price)
             THEN ErrorData(ErrMissing)
             ELSE [error |-> "",
                   fcf_data |-> First4(r.free_cash_flow.values),
                   starting_cash_flow |-> starting_cash_flow,
                   metric_used |-> metric_used,
                   shares_outstanding |-> r.shares,
                   total_debt |-> LineOrZero(r.total_debt),
                   cash_and_equivalents |-> LineOrZero(r.cash),
                   current_price |-> r.price]

(***************************************************************************)
(* calculate_historical_growth, lines 82-90.  The series holds numbers     *)
(* only (NaN cells of the Free Cash Flow row are left out).                *)
(***************************************************************************)
\* .iloc[::-1]
Reverse(s) == [i \in 1..Len(s) |-> s[Len(s) + 1 - i]]

\* pct_change: s[t] / s[t-1] - 1, NaN in the first place
pct_change(s) ==
    [t \in 1..Len(s) |->
        IF t = 1 THEN XNaN
        ELSE XSub(XDiv(XInt(s[t]), XInt(s[t - 1])), XInt(1))]

\* .dropna()
RECURSIVE dropna(_)
dropna(s) ==
    IF Len(s) = 0 THEN <<>>
    ELSE IF Head(s).k = "nan" THEN dropna(Tail(s))
    ELSE <<Head(s)>> \o dropna(Tail(s))

\* line 87: the mask growth_rates < 2
BelowOutlier(x) == XLess(x, XInt(2))

\* line 87: growth_rates[growth_rates < 2]
RECURSIVE SelectBelowOutlier(_)
SelectBelowOutlier(s) ==
    IF Len(s) = 0 THEN <<>>
    ELSE IF BelowOutlier(Head(s)) THEN <<Head(s)>> \o SelectBelowOutlier(Tail(s))
    ELSE SelectBelowOutlier(Tail(s))

\* sum(): 0 + s[1] + ... + s[n]
RECURSIVE SumX(_, _)
SumX(s, n) == IF n = 0 THEN XInt(0) ELSE XAdd(SumX(s, n - 1), s[n])

\* Series.mean(): nan for the empty series
mean(s) == IF Len(s) = 0 THEN XNaN ELSE XDiv(SumX(s, Len(s)), XInt(Len(s)))

DefaultGrowth == XFrac(5, 100)

calculate_historical_growth(fcf_data) ==
    LET growth_rates == dropna(pct_change(Reverse(fcf_data)))
    IN  IF Len(growth_rates) # 0
        THEN mean(SelectBelowOutlier(growth_rates))
        ELSE DefaultGrowth

(***************************************************************************)
(* The rates of the two number inputs, counted in widget steps of 0.5%     *)
(* (lines 152 and 167), so that rate / 100 of lines 171-172 is             *)
(* steps / RateDen.  Neither input has a max_value: HugeRate is the entry  *)
(* 1e100 (%), the decimal rate 1e98.                                       *)
(***************************************************************************)
RateDen == 200

PerpetualSteps == 5

HugeRateExp10 == 98

DblMaxExp10 == 308

Rate(steps) == [huge |-> FALSE, steps |-> steps]

HugeRate == [huge |-> TRUE, steps |-> 0]

\* lines 171-172
RateX(rate) == XFrac(rate.steps, RateDen)

\* the default perpetual_rate=0.025 of line 92
perpetual_rate == XFrac(PerpetualSteps, RateDen)

\* 1 + rate is OnePlus(rate) / RateDen
OnePlus(rate) == ZInt(RateDen + rate.steps)

\* (1 + rate) ** i on Python floats raises OverflowError beyond the double range
PowOverflows(rate, i) == rate.huge /\ HugeRateExp10 * i > DblMaxExp10

(***************************************************************************)
(* run_dcf_model, lines 92-117.  The result is [raised, value]: raised     *)
(* when a power overflowed, else the intrinsic value per share.            *)
(***************************************************************************)
\* <<a^0, a^1, ..., a^k>>
RECURSIVE PowTable(_, _)
PowTable(a, k) ==
    IF k = 0 THEN <<ZInt(1)>>
    ELSE LET t == PowTable(a, k - 1) IN Append(t, ZMul(t[Len(t)], a))

\* lines 103-105: future_cash_flows[i] = cash_flow * ((1 + growth_rate) ** i);
\* the list holds the numerators, future_cash_flows[i] being Numer[i] / RateDen^i
future_cash_flows(cash_flow, growth_rate, period) ==
    LET pw == PowTable(OnePlus(growth_rate), period)
    IN  [i \in 1..period |-> ZMul(ZInt(cash_flow), pw[i + 1])]

\* TerminalSpread with the operands swapped
TerminalSpreadSwapped(discount_rate) == PerpetualSteps - discount_rate.steps

\* line 108: discount_rate - perpetual_rate, in steps
TerminalSpread(discount_rate) == discount_rate.steps - PerpetualSteps

\* line 108: (last_projected_cf * (1 + perpetual_rate)) / (discount_rate - perpetual_rate)
\* for last_projected_cf = last / RateDen^period
terminal_value(last, discount_rate, period) ==
    XDiv(XMul(Fin(last, ZPow(ZInt(RateDen), period)), XAdd(XInt(1), perpetual_rate)),
         XFrac(TerminalSpread(discount_rate), RateDen))

\* The denominator the discounted amounts are written over:
\* (1 + discount_rate)^period, times the spread when that is not zero.
CommonScale(discount_rate) ==
    IF TerminalSpread(discount_rate) = 0 THEN ZInt(1)
    ELSE ZInt(TerminalSpread(discount_rate))

\* line 110: cf / ((1 + discount_rate) ** (i+1)) for the i-th cash flow (from 0).
\* With cf = F[i] / RateDen^i and 1 + discount_rate = D / RateDen the quotient is
\* F[i] / D^i = scale * F[i] * D^(period-i) / (scale * D^period).
discounted_cf(future, discount_rate, period) ==
    LET dw == PowTable(OnePlus(discount_rate), period)
        scale == CommonScale(discount_rate)
        den == ZMul(scale, dw[period + 1])
    IN  [i \in 1..period |->
            Fin(ZMul(ZMul(scale, future[i]), dw[period - i + 1]), den)]

\* line 111: terminal_value / ((1 + discount_rate) ** period).  For a finite
\* terminal value tv = last * (RateDen + PerpetualSteps) / (RateDen^period * spread)
\* this is last * (RateDen + PerpetualSteps) / (spread * D^period); an infinite
\* or nan terminal value divided by the positive power stays what it is.
discounted_terminal_value(tv, last, discount_rate, period) ==
    IF tv.k # "fin" THEN tv
    ELSE Fin(ZMul(last, ZInt(RateDen + PerpetualSteps)),
             ZMul(ZInt(TerminalSpread(discount_rate)),
                  ZPow(OnePlus(discount_rate), period)))

\* line 114
equity_value(total_pv_cf, debt, cash) == XAdd(XSub(total_pv_cf, debt), cash)

run_dcf_model(d, growth_rate, discount_rate, period) ==
    LET cash_flow == d.starting_cash_flow.v
        shares == XInt(d.shares_outstanding.v)
        debt == CellX(d.total_debt)
        cash == CellX(d.cash_and_equivalents)
    IN  IF \E i \in 1..period :
               PowOverflows(growth_rate, i) \/ PowOverflows(discount_rate, i)
        THEN [raised |-> TRUE, value |-> XNaN]
        ELSE LET future == future_cash_flows(cash_flow, growth_rate, period)
                 last == future[period]
                 tv == terminal_value(last, discount_rate, period)
                 total_pv_cf ==
                     XAdd(SumX(discounted_cf(future, discount_rate, period), period),
                          discounted_terminal_value(tv, last, discount_rate, period))
             IN  [raised |-> FALSE,
                  value |-> XDiv(equity_value(total_pv_cf, debt, cash), shares)]

(***************************************************************************)
(* The script, lines 121-231: one run per interaction.                     *)
(***************************************************************************)
TickerTexts == {"", "pltr"}

\* .upper()
Upper(text) == IF text = "pltr" THEN "PLTR" ELSE text

\* line 135: f"{ticker_input}.NS"
final_ticker(ticker) == <<ticker, ".NS">>

\* NeedsRetry that does not look at the first result
RetryAlways(d) == TRUE

\* line 134
NeedsRetry(d) == IsError(d)

GrowthRates == {Rate(16), HugeRate}

DiscountRates == {Rate(0), Rate(PerpetualSteps), Rate(22)}

ProjectionPeriods == {"5 Years", "10 Years"}

\* line 173
PeriodOf(projection_period) == IF projection_period = "10 Years" THEN 10 ELSE 5

\* line 200
margin_of_safety(iv, current_price) ==
    XDiv(XSub(iv, current_price), current_price)

\* IsUndervalued with the comparison slipped to >=
IsNotOvervalued(margin) == ~XLess(margin, XInt(0))

\* line 202
IsUndervalued(margin) == XLess(XInt(0), margin)

NoRate == [huge |-> FALSE, steps |-> -1]

Blank ==
    /\ ticker_input = ""
    /\ fetches = <<>>
    /\ raw = NoResponse
    /\ data = NoData
    /\ historical_growth = XNaN
    /\ user_growth_rate = NoRate
    /\ user_discount_rate = NoRate
    /\ period_in_years = 0
    /\ intrinsic_value = XNaN
    /\ rendered = <<>>

Init == pc = "start" /\ Blank

\* lines 121-130: a (re)run starts from the top; nothing outlives a run
StartRun ==
    /\ pc \in {"start", "done"}
    /\ \E text \in TickerTexts :
          /\ ticker_input' = Upper(text)
          /\ pc' = IF Upper(text) # "" THEN "fetch" ELSE "done"
    /\ fetches' = <<>>
    /\ data' = NoData
    /\ historical_growth' = XNaN
    /\ user_growth_rate' = NoRate
    /\ user_discount_rate' = NoRate
    /\ period_in_years' = 0
    /\ intrinsic_value' = XNaN
    /\ rendered' = <<"title">>
    /\ UNCHANGED raw

\* line 132
FetchBare ==
    /\ pc = "fetch"
    /\ \E r \in Responses :
          LET d == get_financial_data(<<ticker_input>>, r)
          IN  /\ data' = d
              /\ fetches' = Append(fetches, [ticker |-> <<ticker_input>>,
                                             failed |-> IsError(d)])
    /\ pc' = "fetched"
    /\ UNCHANGED <<ticker_input, raw, historical_growth, user_growth_rate,
                   user_discount_rate, period_in_years, intrinsic_value, rendered>>

\* lines 134-136
RetryNS ==
    /\ pc = "fetched"
    /\ NeedsRetry(data)
    /\ \E r \in Responses :
          LET d == get_financial_data(final_ticker(ticker_input), r)
          IN  /\ data' = d
              /\ fetches' = Append(fetches, [ticker |-> final_ticker(ticker_input),
                                             failed |-> IsError(d)])
    /\ pc' = "refetched"
    /\ UNCHANGED <<ticker_input, raw, historical_growth, user_growth_rate,
                   user_discount_rate, period_in_years, intrinsic_value, rendered>>

\* lines 138-139
ShowError ==
    /\ pc = "refetched"
    /\ IsError(data)
    /\ rendered' = Append(rendered, "ticker_error")
    /\ pc' = "done"
    /\ UNCHANGED <<ticker_input, fetches, raw, data, historical_growth,
                   user_growth_rate, user_discount_rate, period_in_years,
                   intrinsic_value>>

\* lines 140-175: the form is drawn, each widget returning what the user set
ShowAssumptions ==
    /\ pc = "refetched" \/ (pc = "fetched" /\ ~NeedsRetry(data))
    /\ ~IsError(data)
    /\ historical_growth' = calculate_historical_growth(data.fcf_data)
    /\ rendered' = Append(rendered, "assumptions")
    /\ \E g \in GrowthRates, r \in DiscountRates, projection_period \in ProjectionPeriods,
          button \in BOOLEAN :
          /\ user_growth_rate' = g
          /\ user_discount_rate' = r
          /\ period_in_years' = PeriodOf(projection_period)
          /\ pc' = IF button THEN "clicked" ELSE "done"
    /\ UNCHANGED <<ticker_input, fetches, raw, data, intrinsic_value>>

\* lines 176-191: the metric used is drawn, then the model is run
Calculate ==
    /\ pc = "clicked"
    /\ LET res == run_dcf_model(data, user_growth_rate, user_discount_rate,
                                period_in_years)
       IN  IF res.raised
           THEN /\ rendered' = rendered \o <<"metric_used", "exception">>
                /\ intrinsic_value' = intrinsic_value
                /\ pc' = "done"
           ELSE /\ rendered' = Append(rendered, "metric_used")
                /\ intrinsic_value' = res.value
                /\ pc' = "results"
    /\ UNCHANGED <<ticker_input, fetches, raw, data, historical_growth,
                   user_growth_rate, user_discount_rate, period_in_years>>

\* lines 192-231
ShowResults ==
    /\ pc = "results"
    /\ LET current_price == CellX(data.current_price)
           margin == margin_of_safety(intrinsic_value, current_price)
           banner == IF IsUndervalued(margin) THEN "undervalued" ELSE "overvalued"
       IN  rendered' = rendered \o <<"intrinsic_value", "current_price", banner,
                                     "limitations", "disclaimer">>
    /\ pc' = "done"
    /\ UNCHANGED <<ticker_input, fetches, raw, data, historical_growth,
                   user_growth_rate, user_discount_rate, period_in_years,
                   intrinsic_value>>

Next ==
    \/ StartRun
    \/ FetchBare
    \/ RetryNS
    \/ ShowError
    \/ ShowAssumptions
    \/ Calculate
    \/ ShowResults

Spec == Init /\ [][Next]_vars

(***************************************************************************)
(* get_financial_data on its own, over every answer of the provider.       *)
(***************************************************************************)
InitNorm ==
    /\ pc = "call_normalize"
    /\ raw \in Responses
    /\ ticker_input = "PLTR"
    /\ fetches = <<>>
    /\ data = NoData
    /\ historical_growth = XNaN
    /\ user_growth_rate = NoRate
    /\ user_discount_rate = NoRate
    /\ period_in_years = 0
    /\ intrinsic_value = XNaN
    /\ rendered = <<>>

CallNormalize ==
    /\ pc = "call_normalize"
    /\ data' = get_financial_data(<<ticker_input>>, raw)
    /\ pc' = "normalized"
    /\ UNCHANGED <<ticker_input, fetches, raw, historical_growth, user_growth_rate,
                   user_discount_rate, period_in_years, intrinsic_value, rendered>>

SpecNorm == InitNorm /\ [][CallNormalize]_vars

(***************************************************************************)
(* calculate_historical_growth on its own, over short series.              *)
(***************************************************************************)
FcfSeries == UNION {[1..n -> (-1)..MaxFcf] : n \in 0..MaxFcfLen}

ValidData ==
    [error |-> "", fcf_data |-> <<>>, starting_cash_flow |-> Num(1),
     metric_used |-> OwnerEarningsLabel, shares_outstanding |-> Num(1),
     total_debt |-> Num(0), cash_and_equivalents |-> Num(0),
     current_price |-> Num(1)]

InitGrowth ==
    /\ pc = "call_growth"
    /\ data \in {[ValidData EXCEPT !.fcf_data = s] : s \in FcfSeries}
    /\ ticker_input = "PLTR"
    /\ fetches = <<>>
    /\ raw = NoResponse
    /\ historical_growth = XNaN
    /\ user_growth_rate = NoRate
    /\ user_discount_rate = NoRate
    /\ period_in_years = 0
    /\ intrinsic_value = XNaN
    /\ rendered = <<>>

CallGrowth ==
    /\ pc = "call_growth"
    /\ historical_growth' = calculate_historical_growth(data.fcf_data)
    /\ pc' = "growth_estimated"
    /\ UNCHANGED <<ticker_input, fetches, raw, data, user_growth_rate,
                   user_discount_rate, period_in_years, intrinsic_value, rendered>>

SpecGrowth == InitGrowth /\ [][CallGrowth]_vars

(***************************************************************************)
(* run_dcf_model on its own, over the data the normaliser can return.      *)
(***************************************************************************)
DcfGrowthRates == {Rate(0), Rate(1), Rate(16)}

DcfDiscountRates == {Rate(0), Rate(PerpetualSteps), Rate(PerpetualSteps + 1), Rate(22)}

DcfData ==
    {[ValidData EXCEPT
        !.starting_cash_flow = Num(c),
        !.metric_used = IF c > 0 THEN OwnerEarningsLabel ELSE NetProfitLabel,
        !.shares_outstanding = Num(s),
        !.total_debt = Num(1),
        !.cash_and_equivalents = Num(cash)] :
     c \in (-1)..MaxCashFlow, s \in (-1)..MaxShares, cash \in {0, 3}}

InitDcf ==
    /\ pc = "call_dcf"
    /\ data \in DcfData
    /\ user_growth_rate \in DcfGrowthRates
    /\ user_discount_rate \in DcfDiscountRates
    /\ period_in_years \in {5, 10}
    /\ ticker_input = "PLTR"
    /\ fetches = <<>>
    /\ raw = NoResponse
    /\ historical_growth = XNaN
    /\ intrinsic_value = XNaN
    /\ rendered = <<>>

CallDcf ==
    /\ pc = "call_dcf"
    /\ intrinsic_value' = run_dcf_model(data, user_growth_rate, user_discount_rate,
                                        period_in_years).value
    /\ pc' = "valued"
    /\ UNCHANGED <<ticker_input, fetches, raw, data, historical_growth,
                   user_growth_rate, user_discount_rate, period_in_years, rendered>>

SpecDcf == InitDcf /\ [][CallDcf]_vars

(***************************************************************************)
(* The claims.                                                             *)
(***************************************************************************)
Range(s) == {s[i] : i \in 1..Len(s)}

Shown(tag) == tag \in Range(rendered)

ResultElements ==
    {"metric_used", "intrinsic_value", "current_price", "undervalued", "overvalued"}

(* C1: the normaliser takes owner earnings (net income + depreciation -     *)
(* maintenance capex) as the starting cash flow, labelled Owner Earnings,   *)
(* exactly when they are > 0; otherwise it takes net income as it is, zero  *)
(* or negative included, labelled as the net-profit fallback.               *)
C1_StartingCashFlowRule ==
    (pc = "normalized" /\ ~IsError(data)) =>
        LET ni == raw.net_income
            dep == raw.depreciation
            positive == ni.k = "num" /\ dep.k = "num" /\ (ni.v + dep.v) - dep.v > 0
        IN  IF positive
            THEN /\ data.starting_cash_flow = Num((ni.v + dep.v) - dep.v)
                 /\ data.metric_used = OwnerEarningsLabel
            ELSE /\ data.starting_cash_flow = ni
                 /\ data.metric_used = NetProfitLabel

\* a result whose starting cash flow is a net income that is not positive
C1_Witness ==
    /\ pc = "normalized"
    /\ ~IsError(data)
    /\ raw.net_income = Num(-1)
    /\ data.starting_cash_flow = Num(-1)
    /\ data.metric_used = NetProfitLabel

(* C2: a discount rate at or below the perpetual growth rate is rejected:   *)
(* no intrinsic value is ever drawn for it (stated here for data with a     *)
(* positive share count and price, so that nothing else is at fault).       *)
C2_InvalidAssumptionRejected ==
    (/\ user_discount_rate # NoRate
     /\ user_discount_rate.steps <= PerpetualSteps
     /\ ~IsError(data)
     /\ data.shares_outstanding.v > 0
     /\ data.current_price.v > 0)
        => ~Shown("intrinsic_value")

(* C3: the bare ticker is fetched first; the ticker with ".NS" appended is  *)
(* fetched once more only if that failed; there is no third fetch; the      *)
(* ticker error is drawn only after both failed, and then nothing else.     *)
C3_SingleSuffixRetry ==
    /\ Len(fetches) <= 2
    /\ (Len(rendered) > 1 \/ pc \in {"fetched", "refetched", "clicked", "results"})
           => Len(fetches) >= 1
    /\ Len(fetches) >= 1 => fetches[1].ticker = <<ticker_input>>
    /\ Len(fetches) = 2 =>
           /\ fetches[1].failed
           /\ fetches[2].ticker = <<ticker_input, ".NS">>
    /\ (Len(rendered) > 1 /\ fetches[1].failed) => Len(fetches) = 2
    /\ Shown("ticker_error") =>
           /\ Len(fetches) = 2
           /\ fetches[1].failed /\ fetches[2].failed
           /\ rendered = <<"title", "ticker_error">>
    /\ Shown("assumptions") => ~fetches[Len(fetches)].failed

\* both fetches failed and the error is on the page
C3_Witness ==
    /\ pc = "done"
    /\ Shown("ticker_error")
    /\ Len(fetches) = 2

(* C4: a missing or NaN net income, depreciation, share count or price      *)
(* each makes the normaliser fail; an absent Total Debt or Cash line does   *)
(* not, the figure being 0.                                                 *)
C4_MissingFieldFails ==
    (pc = "normalized" /\ raw.statements = "ok") =>
        LET missing == \/ raw.net_income.k # "num"
                       \/ raw.depreciation.k # "num"
                       \/ raw.shares.k # "num"
                       \/ raw.price.k # "num"
        IN  /\ missing => IsError(data)
            /\ (~missing /\ raw.free_cash_flow.present) =>
                   /\ ~IsError(data)
                   /\ raw.total_debt.k = "absent" => data.total_debt = Num(0)
                   /\ raw.cash.k = "absent" => data.cash_and_equivalents = Num(0)

(* C5: the growth estimate is the mean of the rates below 200%, and exactly *)
(* the default 0.05, never NaN, when no rate remains.                       *)
C5_DefaultWhenNoRateRemains ==
    pc = "growth_estimated" =>
        LET kept == SelectBelowOutlier(dropna(pct_change(Reverse(data.fcf_data))))
        IN  /\ historical_growth.k # "nan"
            /\ Len(kept) = 0 => XEq(historical_growth, DefaultGrowth)
            /\ Len(kept) > 0 => XEq(historical_growth, mean(kept))

\* the value run_dcf_model returns for other rates, the rest as in the state
ValueAt(growth_rate, discount_rate) ==
    run_dcf_model(data, growth_rate, discount_rate, period_in_years).value

HigherGrowth == {g \in DcfGrowthRates : g.steps > user_growth_rate.steps}

HigherDiscount == {r \in DcfDiscountRates : r.steps > user_discount_rate.steps}

Admissible == pc = "valued" /\ user_discount_rate.steps > PerpetualSteps

C7_AllOrNothing ==
    LET shown == Range(rendered) \cap ResultElements
        complete == /\ {"metric_used", "intrinsic_value", "current_price"} \subseteq shown
                    /\ Cardinality(shown \cap {"undervalued", "overvalued"}) = 1
    IN  /\ pc = "done" => (shown = {} \/ complete)
        /\ Shown("exception") => shown = {}

(* C8: with shares_outstanding <= 0 or current_price <= 0 no intrinsic      *)
(* value and no verdict is ever drawn.                                      *)
C8_DivisionHazardRejected ==
    (~IsError(data)
     /\ (data.shares_outstanding.v <= 0 \/ data.current_price.v <= 0))
        => /\ ~Shown("intrinsic_value")
           /\ ~Shown("undervalued")
           /\ ~Shown("overvalued")

(* C9: a completed valuation shows exactly one banner; for a price > 0 it   *)
(* is the undervalued one exactly when the intrinsic value is above the     *)
(* price, so an intrinsic value equal to the price is overvalued.           *)
C9_VerdictBySign ==
    (pc = "done" /\ Shown("intrinsic_value")) =>
        LET price == data.current_price.v
            iv == intrinsic_value
            above == ZSub(iv.n, ZMul(ZInt(price), iv.d)).s
        IN  /\ Shown("undervalued") # Shown("overvalued")
            /\ (iv.k = "fin" /\ price > 0) => (Shown("undervalued") <=> above > 0)
            /\ (iv.k = "fin" /\ price > 0 /\ above = 0) => Shown("overvalued")

\* the intrinsic value equals the price and the banner is the overvalued one
C9_Witness ==
    /\ pc = "done"
    /\ Shown("overvalued")
    /\ intrinsic_value.k = "fin"
    /\ data.current_price.v > 0
    /\ ZSub(intrinsic_value.n,
            ZMul(ZInt(data.current_price.v), intrinsic_value.d)).s = 0

(* C10: a fetch that ends in the missing-data error is not retried with the *)
(* ".NS" suffix, and the ticker-not-found message is not what it shows.     *)
C10_MissingFieldNotRetried ==
    [][(pc = "fetched" /\ data.error = ErrMissing)
          => (fetches' = fetches /\ "ticker_error" \notin Range(rendered'))]_vars
====
